---------------------------- MODULE Spec2Model ----------------------------
(***************************************************************************)
(* ESP-AirTag: the tag's IMUTask (calibration, fusion loop, 32-slot moving *)
(* average, hysteresis classifier, BLE notification on transition), the    *)
(* BLE link between tag and tracker, and the tracker's one-slot IMU        *)
(* mailbox read by UITask.                                                 *)
(*                                                                         *)
(* Numbers.  The code works in float.  Magnitudes are modelled in quarters *)
(* of a g (Scale = 4): every value of the model is a small multiple of     *)
(* 0.25, which float represents exactly, so the running sum, the division  *)
(* by 32 and the two comparisons are exact and the integer arithmetic here *)
(* is the arithmetic of the code.  avg is kept as its numerator over       *)
(* Scale * Capacity.  Angles are in 1/50000 degree, times in milliseconds. *)
(***************************************************************************)
EXTENDS Integers, Sequences, FiniteSets

\* ------------------------------------------------------------------ bounds
\* Iterations of the fusion loop explored.
MaxIter == 48
\* Iterations explored together with the tag's button and buzzer tasks.
TagIter == 10
\* BLE writes to the button characteristic explored.
MaxWrites == 2
\* Iterations of the fusion loop explored with a sensor that may not answer.
FaultIter == 18
\* Length of the longest card UID explored (rfid.uid.size).
MaxUidLen == 8
\* Iterations of the fusion loop explored for the motion buffer alone.
RingIter == 34

\* ------------------------------------------------------- program constants
\* float buffer[32]; i = (i+1) % 32; avg = sum / 32.
Capacity == 32
\* Samples averaged by calibrateGyro / calibrateAccel.
CalSamples == 1000
\* Magnitude units per g (model scale, see the header).
Scale == 4
\* avg >= 0.5 is avg >= 1/EnterDen; avg <= 0.05 is avg <= 1/ExitDen.
EnterDen == 2
ExitDen == 20

\* ------------------------------------------------------------------ inputs
\* One sensor situation: the linear-acceleration magnitude the pipeline
\* derives from it (quarters of a g), the accelerometer tilt angles
\* (degrees) and the gyroscope rates (degrees per second, before the
\* offset is subtracted).  sqrt, atan2, sin and cos are not computed here:
\* the magnitude is an input of the smoother.
Rest == [mag |-> 0, angX |-> 0, angY |-> 0, gyX |-> 0, gyY |-> 0]
Walk == [mag |-> 4, angX |-> 10, angY |-> -5, gyX |-> 20, gyY |-> -10]
Shake == [mag |-> 8, angX |-> -30, angY |-> 15, gyX |-> -40, gyY |-> 60]
Samples == {Rest, Walk, Shake}
NoSample == [mag |-> -1, angX |-> 0, angY |-> 0, gyX |-> 0, gyY |-> 0]

\* What an uninitialised float local may hold when calibration starts.
Garbage == {0, 1000}
\* The constant raw signal of the sensor at rest during calibration
\* (already divided by the scale constant of imu_read_*).
GyroAtRest == {<<0, 0, 0>>, <<2, -1, 0>>}
AccelAtRest == {<<0, 0, 1>>}

VARIABLES
  imuPc,          \* IMUTask: "calGyro", "calAccel", "loop"
  errGy, errAc,   \* xErrGy,yErrGy,zErrGy / xErrAc,yErrAc,zErrAc
  elapsedTime,    \* ms
  roll, pitch,    \* 1/50000 degree
  buffer, sum, avg, i,
  movement, moveSignal,
  sent,           \* payloads handed to imuChar->notify() in the last iteration
  n,              \* iterations of the fusion loop so far
  cur,            \* the sensor situation of the last iteration
  runLen,         \* iterations in the current situation
  priorAllZero,   \* every magnitude before the current situation was 0
  movingAtRunStart, stopsAtRunStart,
  moveEvents, stopEvents,   \* "1" / "0" notifications issued so far
  linkUp,         \* the BLE connection exists (client->isConnected())
  deviceConnected,\* tag
  connected,      \* tracker
  air,            \* notifications sent and not yet handled by the tracker
  IMUQ,           \* the tracker's mailbox
  lastFlag,       \* the last flag onImuNotify wrote (NoFlag before the first)
  overwritten,    \* unread flags replaced in the mailbox so far
  movingFlag,     \* UITask's local, NoFlag before the first read
  bleMessageReceived,   \* tag: set by ButtonCallbacks::onWrite
  relayPc,        \* ButtonRelayTask: "check", "clear", "give"
  semaphore,      \* xButtonSignalSemaphore: 0 or 1
  buzzerOn,       \* BuzzerSetTask's local
  writes,         \* BLE writes received so far
  wireOk,         \* tag: the I2C transactions with the sensor complete
  uiPc,           \* UITask: "start", "select", "delay"
  btnPc,          \* buttonTask: "start", "read", "delay"
  resetPc,        \* resetButtonTask: "poll", "suspendBtn", "suspendUI",
                  \* "resumeRFID"
  rfidPc,         \* RFIDTask: "wait", "beep", "resumeUI", "resumeBtn",
                  \* "suspendSelf", "delay"
  uiSuspended, btnSuspended, rfidSuspended,   \* eSuspended, per task
  lastButton,     \* buttonTask's local: "HIGH" or "LOW"
  lastAccess,     \* the later of the last accepted reset press ("press")
                  \* and the last authorised card read ("card"); "none"
                  \* before both
  uid,            \* rfid.uid: the bytes of the card read last
  authReturn,     \* what isAuthorized() returned last, <<>> before a call
  connPc,         \* connectToPeripheral: "idle", "connect", "service",
                  \* "btnChar", "btnProps", "imuChar", "imuProps",
                  \* "subscribe", "returned"
  periph,         \* what the peripheral at addr offers
  client,         \* tracker: client != nullptr
  btnRemoteChar,  \* "absent" (nullptr) or the properties of the button
                  \* characteristic found
  imuRemoteChar,  \* the same for the IMU characteristic
  subscribed,     \* registerForNotify(onImuNotify) was called in this call
  connReturn,     \* what connectToPeripheral returned, <<>> inside a call
  gIMUQ,          \* tracker: gIMUQ != nullptr (setIMUQueue was called)
  scanPc,         \* BLEScannerTask: "init", "scan", "watch", "clearBtn",
                  \* "clearImu", "disconnect", "rescan", "sample", "delay"
  seen,           \* link drops BLEScannerTask has observed so far
  sinceStart,     \* millis() - startTime, ms, capped above the period
  sampled,        \* an RSSI was sampled since the last observed drop
  RSSIQ,          \* the tracker's RSSI mailbox
  hasAvg,         \* distance.cpp
  rssiAvg,        \* float, in units of 2^-18 dBm (the spacing of float
                  \* between 32 and 64 in magnitude)
  calls,          \* calls of updateRssiAvg so far
  minSeen, maxSeen,   \* the smallest and largest sample passed so far, dBm
  gravIn,         \* <<roll, pitch, <<AccX, AccY, AccZ>>>> of the
                  \* compensation computed last (degrees, g)
  gravity,        \* <<gX, gY, gZ>> computed last, in 1/25 g
  linMag,         \* linMag computed last, in 1/25 g, rounded down; -1
                  \* before the first computation
  wbPc,           \* writeBtnState: "idle", "check", "canNR", "writeNR",
                  \* "canW", "write", "returned", "crashed"
  wbPressed,      \* its argument
  wbPtr,          \* the btnRemoteChar its first line tested, "absent"
                  \* before the test and when the test failed
  wbReturn,       \* what it returned, <<>> inside a call
  issued,         \* the writeValue calls of the current call
  nullUse         \* a member call went through a null btnRemoteChar

imuVars == <<imuPc, errGy, errAc, elapsedTime, roll, pitch, buffer, sum, avg,
             i, movement, moveSignal>>
obsVars == <<sent, n, cur, runLen, priorAllZero, movingAtRunStart,
             stopsAtRunStart, moveEvents, stopEvents>>
linkVars == <<linkUp, deviceConnected, connected>>
trackerVars == <<air, IMUQ, lastFlag, overwritten, movingFlag>>
buttonVars == <<bleMessageReceived, relayPc, semaphore, buzzerOn, writes>>
sensorVars == <<wireOk>>
\* What the tasks and callbacks of the tag, the link and the mailbox leave
\* alone.
lockVars == <<uiPc, btnPc, resetPc, rfidPc, uiSuspended, btnSuspended,
              rfidSuspended, lastButton, lastAccess>>
rfidVars == <<uid, authReturn>>
connVars == <<connPc, periph, client, btnRemoteChar, imuRemoteChar,
              subscribed, connReturn>>
notifyVars == <<gIMUQ>>
scanVars == <<scanPc, seen, sinceStart, sampled, RSSIQ>>
writeVars == <<wbPc, wbPressed, wbPtr, wbReturn, issued, nullUse>>
rssiVars == <<hasAvg, rssiAvg, calls, minSeen, maxSeen>>
gravVars == <<gravIn, gravity, linMag>>
moreVars == <<notifyVars, scanVars, writeVars, rssiVars, gravVars>>
restVars == <<sensorVars, lockVars, rfidVars, connVars, moreVars>>
vars == <<imuVars, obsVars, linkVars, trackerVars, buttonVars, restVars>>

\* ----------------------------------------------------------------- helpers
RECURSIVE SumSlots(_, _)
SumSlots(buf, k) ==
  IF k = 0 THEN 0 ELSE buf[k - 1] + SumSlots(buf, k - 1)

Bit(b) == IF b THEN 1 ELSE 0

\* -------------------------------------------------------------- calibration
\* for (i < 1000) { read; *xErr += val; } *xErr = *xErr / 1000, per axis.
\* err is what the output variables held when the call began.
CalibrationMean(err, v) ==
  [k \in 1..3 |-> (err[k] + CalSamples * v[k]) \div CalSamples]

\* A transaction that does not complete delivers nothing and Wire.read()
\* returns -1 for every byte: the raw word is -1, that is -1/131 degree/s or
\* -1/16384 g, which is 0 at the resolution of the model.
NoDataGyro == <<0, 0, 0>>
NoDataAccel == <<0, 0, 0>>

\* The same reads in the loop: AccX = AccY = AccZ = -1/16384, so atan2 yields
\* accAngleX = -135 and accAngleY = 35 (35.26) degrees, and the unit gravity
\* estimate subtracted from an acceleration of nearly 0 leaves a magnitude
\* of 1.0 g (0.9999).
NoData == [mag |-> 4, angX |-> -135, angY |-> 35, gyX |-> 0, gyY |-> 0]

\* What imu_read_gyro / imu_read_accel return during calibration.
GyroReads == IF wireOk THEN GyroAtRest ELSE {NoDataGyro}
AccelReads == IF wireOk THEN AccelAtRest ELSE {NoDataAccel}

\* A slip: the gyroscope is calibrated again from inside the loop.
CalibrateGyroInLoop ==
  /\ imuPc \in {"calGyro", "loop"}
  /\ \E v \in GyroReads : errGy' = CalibrationMean(errGy, v)
  /\ imuPc' = IF imuPc = "calGyro" THEN "calAccel" ELSE imuPc
  /\ UNCHANGED <<errAc, elapsedTime, roll, pitch, buffer, sum, avg, i,
                 movement, moveSignal>>
  /\ UNCHANGED <<obsVars, linkVars, trackerVars, buttonVars>>
  /\ UNCHANGED restVars

\* A slip: calibrateAccel is not called, the loop follows calibrateGyro.
CalibrateGyroSkipsAccel ==
  /\ imuPc = "calGyro"
  /\ \E v \in GyroReads : errGy' = CalibrationMean(errGy, v)
  /\ imuPc' = "loop"
  /\ UNCHANGED <<errAc, elapsedTime, roll, pitch, buffer, sum, avg, i,
                 movement, moveSignal>>
  /\ UNCHANGED <<obsVars, linkVars, trackerVars, buttonVars>>
  /\ UNCHANGED restVars

CalibrateGyro ==
  /\ imuPc = "calGyro"
  /\ \E v \in GyroReads : errGy' = CalibrationMean(errGy, v)
  /\ imuPc' = "calAccel"
  /\ UNCHANGED <<errAc, elapsedTime, roll, pitch, buffer, sum, avg, i,
                 movement, moveSignal>>
  /\ UNCHANGED <<obsVars, linkVars, trackerVars, buttonVars>>
  /\ UNCHANGED restVars

CalibrateAccel ==
  /\ imuPc = "calAccel"
  /\ \E v \in AccelReads : errAc' = CalibrationMean(errAc, v)
  /\ imuPc' = "loop"
  /\ UNCHANGED <<errGy, elapsedTime, roll, pitch, buffer, sum, avg, i,
                 movement, moveSignal>>
  /\ UNCHANGED <<obsVars, linkVars, trackerVars, buttonVars>>
  /\ UNCHANGED restVars

\* --------------------------------------------------------------- fusion loop
\* elapsedTime (ms).  The first iteration follows previousTime = currentTime
\* = millis() directly; every later one follows vTaskDelay(pdMS_TO_TICKS(5)).
FirstDeltas == {0, 1}
LoopDeltas == {5}

\* roll = 0.98*(roll + GyroX*elapsedTime) + (1-0.98)*accAngleX, in 1/50000
\* degree, with prev and acc in degrees, rate in degrees/s and dt in ms.
ComplementaryFilter(prev, rate, dt, acc) ==
  49 * (1000 * prev + rate * dt) + 1000 * acc

\* if (buffer[i+1] != 0): the slot after the one about to be written.  For
\* i = 31 the read is past the end of buffer[32]; past is whether the word
\* found there is non-zero.
NeighbourNonZero(buf, idx, past) ==
  IF idx + 1 < Capacity THEN buf[idx + 1] # 0 ELSE past

\* A slip: sum = buffer[i] instead of sum += buffer[i].
SumAssignsInsteadOfAdds(buf, s, idx, mag, past) == mag

\* if (buffer[i+1] != 0) sum -= buffer[i];  buffer[i] = linMag;
\* sum += buffer[i];
SumAfterInsert(buf, s, idx, mag, past) ==
  (IF NeighbourNonZero(buf, idx, past) THEN s - buf[idx] ELSE s) + mag

\* The slots of buffer the moving-average step reads or writes for write
\* index idx: buffer[i+1] in the test, buffer[i] in the subtraction, the
\* store and the addition.
SlotsUsed(idx) == {idx, idx + 1}

\* A slip: the index wraps one slot early.
NextIndexWrapsEarly(idx) == (idx + 1) % (Capacity - 1)

\* i = (i+1) % 32
NextIndex(idx) == (idx + 1) % Capacity

\* avg = sum / 32, as the numerator over Scale * Capacity.
AvgOf(s) == s

\* A slip: avg > 0.5 instead of avg >= 0.5.
EnterMovingStrict(a, mv) == EnterDen * a > Scale * Capacity /\ ~mv

\* avg >= 0.5 && !movement
EnterMoving(a, mv) == EnterDen * a >= Scale * Capacity /\ ~mv

\* A slip: one threshold for both directions, no hysteresis band.
ExitBelowEnter(a, mv) == EnterDen * a < Scale * Capacity /\ mv

\* avg <= 0.05 && movement
ExitMoving(a, mv) == ExitDen * a <= Scale * Capacity /\ mv

\* sprintf(str, "%d", moveSignal); setValue(str, strlen(str)): the bytes of
\* the decimal text of a value 0 or 1.
Sprintf(d) == <<48 + d>>

\* A slip: the "stopped moving" branch does not notify.
NotificationsWithoutStop(entered, exited) ==
  IF entered THEN <<Sprintf(1)>> ELSE <<>>

\* The payloads IMUTask hands to notify() in one iteration: first the
\* "movement detected" branch, then the "stopped moving" branch.
Notifications(entered, exited) ==
  (IF entered THEN <<Sprintf(1)>> ELSE <<>>) \o
  (IF exited THEN <<Sprintf(0)>> ELSE <<>>)

\* The sensor situations the next iteration may see.  The input explored is
\* one episode of motion: the device rests (any number of iterations, none
\* included), moves in one way, and rests again.
NextSamples ==
  IF ~wireOk THEN {NoData}
  ELSE IF cur = NoSample THEN Samples
  ELSE IF cur.mag # 0 THEN {cur, Rest}
  ELSE IF priorAllZero THEN Samples
  ELSE {Rest}

IMUIteration(s, dt, past, bound) ==
  LET accAngleX == s.angX - errAc[1]
      accAngleY == s.angY + errAc[2]
      GyroX == s.gyX - errGy[1]
      GyroY == s.gyY - errGy[2]
      sum1 == SumAfterInsert(buffer, sum, i, s.mag, past)
      avg1 == AvgOf(sum1)
      entered == EnterMoving(avg1, movement)
      mv1 == IF entered THEN TRUE ELSE movement
      exited == ExitMoving(avg1, mv1)
      mv2 == IF exited THEN FALSE ELSE mv1
      out == Notifications(entered, exited)
      newRun == cur # s
  IN
  /\ imuPc = "loop"
  /\ n < bound
  /\ elapsedTime' = dt
  /\ roll' = ComplementaryFilter(accAngleX, GyroX, dt, accAngleX)
  /\ pitch' = ComplementaryFilter(accAngleY, GyroY, dt, accAngleY)
  /\ buffer' = [buffer EXCEPT ![i] = s.mag]
  /\ sum' = sum1
  /\ i' = NextIndex(i)
  /\ avg' = avg1
  /\ movement' = mv2
  /\ moveSignal' = IF exited THEN 0 ELSE IF entered THEN 1 ELSE moveSignal
  /\ sent' = out
  /\ air' = IF linkUp THEN air \o out ELSE air
  /\ n' = n + 1
  /\ cur' = s
  /\ runLen' = IF newRun THEN 1 ELSE runLen + 1
  /\ priorAllZero' = IF newRun
                       THEN priorAllZero /\ (cur = NoSample \/ cur.mag = 0)
                       ELSE priorAllZero
  /\ movingAtRunStart' = IF newRun THEN movement ELSE movingAtRunStart
  /\ stopsAtRunStart' = IF newRun THEN stopEvents ELSE stopsAtRunStart
  /\ moveEvents' = moveEvents + Bit(entered)
  /\ stopEvents' = stopEvents + Bit(exited)
  /\ UNCHANGED <<imuPc, errGy, errAc>>
  /\ UNCHANGED <<linkVars, IMUQ, lastFlag, overwritten, movingFlag, buttonVars>>
  /\ UNCHANGED restVars

IMULoop ==
  \E s \in NextSamples, past \in BOOLEAN :
    \E dt \in (IF n = 0 THEN FirstDeltas ELSE LoopDeltas) :
      IMUIteration(s, dt, past, MaxIter)

\* ------------------------------------------------------------------ BLE link
\* A slip: the disconnect callback also resets the classifier.
OnDisconnectResetsMovement ==
  /\ deviceConnected' = FALSE
  /\ movement' = FALSE
  /\ UNCHANGED <<imuPc, errGy, errAc, elapsedTime, roll, pitch, buffer, sum,
                 avg, i, moveSignal>>

\* ServerCallbacks::onDisconnect on the tag.
OnDisconnect ==
  /\ deviceConnected' = FALSE
  /\ UNCHANGED imuVars

\* ServerCallbacks::onConnect on the tag.
OnConnect ==
  /\ deviceConnected' = TRUE
  /\ UNCHANGED imuVars

\* The tag's button characteristic: PROPERTY_READ | PROPERTY_WRITE, so the
\* tracker sees canWrite() and not canWriteNoResponse().
TagButtonChar == "write"

\* The tag's IMU characteristic: PROPERTY_NOTIFY.
TagImuChar == "notify"

\* BLEScannerTask (after setIMUQueue(IMUQ)) finds the tag and
\* connectToPeripheral succeeds: the link is up, both characteristics are
\* kept, the tracker is subscribed to the IMU characteristic.
Connect ==
  /\ ~connected /\ ~linkUp
  /\ linkUp' = TRUE
  /\ connected' = TRUE
  /\ OnConnect
  /\ gIMUQ' = TRUE
  /\ client' = TRUE
  /\ btnRemoteChar' = TagButtonChar
  /\ imuRemoteChar' = TagImuChar
  /\ subscribed' = TRUE
  /\ UNCHANGED <<obsVars, trackerVars, buttonVars>>
  /\ UNCHANGED <<sensorVars, lockVars, rfidVars, connPc, periph, connReturn,
                 scanVars, writeVars, rssiVars, gravVars>>

\* The radio link is lost: what was in flight is gone, the tag's stack calls
\* onDisconnect.
LinkDrop ==
  /\ linkUp
  /\ linkUp' = FALSE
  /\ air' = <<>>
  /\ OnDisconnect
  /\ UNCHANGED <<connected, obsVars, IMUQ, lastFlag, overwritten, movingFlag,
                 buttonVars>>
  /\ UNCHANGED restVars

\* BLEScannerTask: if (connected && client && !client->isConnected())
\* { connected = false; btnRemoteChar = nullptr; imuRemoteChar = nullptr;
\*   client->disconnect(); ... } and it rescans.
ScannerSeesDrop ==
  /\ connected /\ ~linkUp
  /\ connected' = FALSE
  /\ btnRemoteChar' = "absent"
  /\ imuRemoteChar' = "absent"
  /\ UNCHANGED <<linkUp, deviceConnected, imuVars, obsVars, trackerVars,
                 buttonVars>>
  /\ UNCHANGED <<sensorVars, lockVars, rfidVars, connPc, periph, client,
                 subscribed, connReturn, moreVars>>

\* ------------------------------------------------------------------ tracker
\* bool found = false: no '0' or '1' in the payload; also what lastFlag and
\* movingFlag hold before the first write and the first read.
NoFlag == -1

\* A slip: the last '0' or '1' of the payload decides.
ParseLastFlag(p) ==
  LET hits == {k \in 1..Len(p) : p[k] = 48 \/ p[k] = 49}
      last == CHOOSE k \in hits : \A j \in hits : j <= k
  IN IF hits = {} THEN NoFlag ELSE IF p[last] = 48 THEN 0 ELSE 1

\* The first '0' or '1' of the payload, as 0 or 1; NoFlag without one.
ParseFlag(p) ==
  LET hits == {k \in 1..Len(p) : p[k] = 48 \/ p[k] = 49}
      first == CHOOSE k \in hits : \A j \in hits : k <= j
  IN IF hits = {} THEN NoFlag ELSE IF p[first] = 48 THEN 0 ELSE 1

\* A slip: a send to the back of a longer queue instead of an overwrite.
QueueSendToBack(q, x) == Append(q, x)

\* xQueueOverwrite on a queue of length 1.
QueueOverwrite(q, x) == <<x>>

\* onImuNotify(pData, length) for the oldest notification in flight.
OnImuNotify ==
  /\ air # <<>>
  /\ LET p == Head(air)
         flag == ParseFlag(p)
     IN IF ~gIMUQ \/ Len(p) = 0 \/ flag = NoFlag
          THEN UNCHANGED <<IMUQ, lastFlag, overwritten>>
          ELSE /\ IMUQ' = QueueOverwrite(IMUQ, flag)
               /\ lastFlag' = flag
               /\ overwritten' = overwritten + Len(IMUQ)
  /\ air' = Tail(air)
  /\ UNCHANGED <<imuVars, obsVars, linkVars, movingFlag, buttonVars>>
  /\ UNCHANGED restVars

\* UITask: member == IMUQ, xQueueReceive(IMUQ, &movingFlag, 0) == pdTRUE.
UIRead ==
  /\ IMUQ # <<>>
  /\ movingFlag' = Head(IMUQ)
  /\ IMUQ' = Tail(IMUQ)
  /\ UNCHANGED <<imuVars, obsVars, linkVars, air, lastFlag, overwritten,
                 buttonVars>>
  /\ UNCHANGED restVars

\* ------------------------------------------------- tag: button and buzzer
\* ButtonCallbacks::onWrite, called by the tag's stack for a write the
\* tracker sent over the link.
OnWrite ==
  /\ linkUp
  /\ writes < MaxWrites
  /\ bleMessageReceived' = TRUE
  /\ writes' = writes + 1
  /\ UNCHANGED <<relayPc, semaphore, buzzerOn>>
  /\ UNCHANGED <<imuVars, obsVars, linkVars, trackerVars>>
  /\ UNCHANGED restVars

\* ButtonRelayTask: if (bleMessageReceived) { bleMessageReceived = false;
\* xSemaphoreGive(xButtonSignalSemaphore); }, one statement per step.
ButtonRelayTask ==
  /\ \/ /\ relayPc = "check"
        /\ bleMessageReceived
        /\ relayPc' = "clear"
        /\ UNCHANGED <<bleMessageReceived, semaphore>>
     \/ /\ relayPc = "clear"
        /\ bleMessageReceived' = FALSE
        /\ relayPc' = "give"
        /\ UNCHANGED semaphore
     \/ /\ relayPc = "give"
        /\ semaphore' = 1
        /\ relayPc' = "check"
        /\ UNCHANGED bleMessageReceived
  /\ UNCHANGED <<buzzerOn, writes>>
  /\ UNCHANGED <<imuVars, obsVars, linkVars, trackerVars>>
  /\ UNCHANGED restVars

\* BuzzerSetTask: xSemaphoreTake(..., portMAX_DELAY) == pdTRUE, then toggle.
BuzzerSetTask ==
  /\ semaphore = 1
  /\ semaphore' = 0
  /\ buzzerOn' = ~buzzerOn
  /\ UNCHANGED <<bleMessageReceived, relayPc, writes>>
  /\ UNCHANGED <<imuVars, obsVars, linkVars, trackerVars>>
  /\ UNCHANGED restVars

\* ------------------------------------------------------- tracker: connecting
\* What a peripheral offers to connectToPeripheral: whether
\* client->connect(addr) succeeds, whether getService(svcUUID) finds the
\* service, and each characteristic: "absent", or present with its
\* properties.
Peripherals ==
  [reachable : BOOLEAN, service : BOOLEAN,
   btn : {"absent", "readonly", "write", "writeNR", "both"},
   imu : {"absent", "plain", "notify"}]

NoPeripheral ==
  [reachable |-> FALSE, service |-> FALSE, btn |-> "absent", imu |-> "absent"]

\* btnRemoteChar->canWriteNoResponse()
CanWriteNoResponse(c) == c \in {"writeNR", "both"}

\* btnRemoteChar->canWrite()
CanWrite(c) == c \in {"write", "both"}

\* btnRemoteChar->canWrite() || btnRemoteChar->canWriteNoResponse()
CanWriteAny(c) == CanWrite(c) \/ CanWriteNoResponse(c)

\* imuRemoteChar->canNotify()
CanNotify(c) == c = "notify"

\* A slip: return false without client->disconnect().
ReturnFalseKeepsLink ==
  /\ connReturn' = <<FALSE>>
  /\ connPc' = "returned"
  /\ UNCHANGED <<linkUp, deviceConnected, imuVars>>

\* client->disconnect(); return false;  (the tag's stack calls onDisconnect)
DisconnectAndReturnFalse ==
  /\ linkUp' = FALSE
  /\ OnDisconnect
  /\ connReturn' = <<FALSE>>
  /\ connPc' = "returned"

\* BLEScannerTask: while (!connected), for a device that advertises the
\* service: connectToPeripheral(d.getAddress()) is entered; its first
\* statement is client = BLEDevice::createClient().
ScannerCalls ==
  /\ connPc = "idle"
  /\ ~connected
  /\ \E p \in Peripherals : periph' = p
  /\ client' = TRUE
  /\ subscribed' = FALSE
  /\ connReturn' = <<>>
  /\ connPc' = "connect"
  /\ UNCHANGED <<btnRemoteChar, imuRemoteChar>>
  /\ UNCHANGED <<imuVars, obsVars, linkVars, trackerVars, buttonVars,
                 sensorVars, lockVars, rfidVars, moreVars>>

\* The body of connectToPeripheral, one library call per step.
ConnectToPeripheral ==
  /\ \/ /\ connPc = "connect"
        /\ IF periph.reachable
             THEN /\ linkUp' = TRUE
                  /\ OnConnect
                  /\ connPc' = "service"
                  /\ UNCHANGED connReturn
             ELSE /\ connReturn' = <<FALSE>>
                  /\ connPc' = "returned"
                  /\ UNCHANGED <<linkUp, deviceConnected, imuVars>>
        /\ UNCHANGED <<btnRemoteChar, imuRemoteChar, subscribed, connected>>
     \/ /\ connPc = "service"
        /\ IF periph.service
             THEN /\ connPc' = "btnChar"
                  /\ UNCHANGED <<connReturn, linkUp, deviceConnected, imuVars>>
             ELSE DisconnectAndReturnFalse
        /\ UNCHANGED <<btnRemoteChar, imuRemoteChar, subscribed, connected>>
     \/ /\ connPc = "btnChar"
        /\ btnRemoteChar' = periph.btn
        /\ IF periph.btn # "absent"
             THEN /\ connPc' = "btnProps"
                  /\ UNCHANGED <<connReturn, linkUp, deviceConnected, imuVars>>
             ELSE DisconnectAndReturnFalse
        /\ UNCHANGED <<imuRemoteChar, subscribed, connected>>
     \/ /\ connPc = "btnProps"
        /\ IF CanWriteAny(btnRemoteChar)
             THEN /\ connPc' = "imuChar"
                  /\ UNCHANGED <<connReturn, linkUp, deviceConnected, imuVars>>
             ELSE DisconnectAndReturnFalse
        /\ UNCHANGED <<btnRemoteChar, imuRemoteChar, subscribed, connected>>
     \/ /\ connPc = "imuChar"
        /\ imuRemoteChar' = periph.imu
        /\ IF periph.imu # "absent"
             THEN /\ connPc' = "imuProps"
                  /\ UNCHANGED <<connReturn, linkUp, deviceConnected, imuVars>>
             ELSE DisconnectAndReturnFalse
        /\ UNCHANGED <<btnRemoteChar, subscribed, connected>>
     \/ /\ connPc = "imuProps"
        /\ IF CanNotify(imuRemoteChar)
             THEN /\ connPc' = "subscribe"
                  /\ UNCHANGED <<connReturn, linkUp, deviceConnected, imuVars>>
             ELSE DisconnectAndReturnFalse
        /\ UNCHANGED <<btnRemoteChar, imuRemoteChar, subscribed, connected>>
     \/ /\ connPc = "subscribe"
        /\ subscribed' = TRUE
        /\ connected' = TRUE
        /\ connReturn' = <<TRUE>>
        /\ connPc' = "returned"
        /\ UNCHANGED <<btnRemoteChar, imuRemoteChar, linkUp, deviceConnected,
                       imuVars>>
  /\ UNCHANGED <<periph, client>>
  /\ UNCHANGED <<obsVars, trackerVars, buttonVars, sensorVars, lockVars,
                 rfidVars, moreVars>>

\* BLEScannerTask: connected = connectToPeripheral(...); the call is over
\* and the device it was made for is out of scope.
ScannerAssigns ==
  /\ connPc = "returned"
  /\ connected' = connReturn[1]
  /\ connPc' = "idle"
  /\ periph' = NoPeripheral
  /\ UNCHANGED <<client, btnRemoteChar, imuRemoteChar, subscribed,
                 connReturn, linkUp, deviceConnected>>
  /\ UNCHANGED <<imuVars, obsVars, trackerVars, buttonVars, sensorVars,
                 lockVars, rfidVars, moreVars>>

\* -------------------------------------------------- tracker: access control
\* byte AUTH_UID[] = { 0x04, 0x81, 0x70, 0x0A, 0x9C, 0x14, 0x90 };
AUTH_UID == <<4, 129, 112, 10, 156, 20, 144>>

\* for (byte i = 0; i < rfid.uid.size; i++)
\*   if (rfid.uid.uidByte[i] != AUTH_UID[i]) return false;
\* return true;  from index k on (k = i + 1).
RECURSIVE CompareFrom(_, _)
CompareFrom(u, k) ==
  IF k > Len(u) THEN TRUE
  ELSE IF u[k] # AUTH_UID[k] THEN FALSE
  ELSE CompareFrom(u, k + 1)

\* A slip: no size check, the bytes both have are compared.
RECURSIVE ComparePrefix(_, _)
ComparePrefix(u, k) ==
  IF k > Len(u) \/ k > Len(AUTH_UID) THEN TRUE
  ELSE IF u[k] # AUTH_UID[k] THEN FALSE
  ELSE ComparePrefix(u, k + 1)

IsAuthorizedWithoutSize(u) == ComparePrefix(u, 1)

\* if (rfid.uid.size != sizeof(AUTH_UID)) return false; then the loop.
IsAuthorized(u) ==
  IF Len(u) # Len(AUTH_UID) THEN FALSE ELSE CompareFrom(u, 1)

\* The cards presented to the locked tracker: the authorised one, one that
\* differs from it in the last byte, and a 4-byte card.
LockCards == {AUTH_UID, <<4, 129, 112, 10, 156, 20, 145>>, <<4, 129, 112, 10>>}

\* The bytes explored at position k of a UID: the authorised byte, its
\* successor and 0; past the end of AUTH_UID, 0 and the last authorised byte.
ByteChoices(k) ==
  IF k <= Len(AUTH_UID)
    THEN {AUTH_UID[k], (AUTH_UID[k] + 1) % 256, 0}
    ELSE {0, AUTH_UID[Len(AUTH_UID)]}

RECURSIVE UidsOfLen(_)
UidsOfLen(len) ==
  IF len = 0 THEN {<<>>}
  ELSE {Append(u, b) : u \in UidsOfLen(len - 1), b \in ByteChoices(len)}

Uids == UNION {UidsOfLen(len) : len \in 0..MaxUidLen}

\* Everything the tracker's UI, button, reset and RFID tasks leave alone.
offLock == <<imuVars, obsVars, linkVars, trackerVars, buttonVars, sensorVars,
             connVars, moreVars>>

\* UITask: lcd.init(); ...; vTaskSuspend(NULL); then for (;;) { wait for a
\* member of uiSet, print it on the LCD, vTaskDelay(100) }.  The item shown
\* is a distance, which distanceTask produces while the tracker is
\* connected.
UITask ==
  /\ ~uiSuspended
  /\ \/ /\ uiPc = "start"
        /\ uiSuspended' = TRUE
        /\ uiPc' = "select"
     \/ /\ uiPc = "select"
        /\ connected
        /\ uiPc' = "delay"
        /\ UNCHANGED uiSuspended
     \/ /\ uiPc = "delay"
        /\ uiPc' = "select"
        /\ UNCHANGED uiSuspended
  /\ UNCHANGED <<btnPc, resetPc, rfidPc, btnSuspended, rfidSuspended,
                 lastButton, lastAccess>>
  /\ UNCHANGED <<offLock, rfidVars>>

\* buttonTask: vTaskSuspend(NULL); then while (1) { currentButton =
\* digitalRead; if (lastButton == HIGH && currentButton == LOW)
\* writeBtnState(true); lastButton = currentButton; vTaskDelay(100) }.
ButtonTask ==
  /\ ~btnSuspended
  /\ \/ /\ btnPc = "start"
        /\ btnSuspended' = TRUE
        /\ btnPc' = "read"
        /\ UNCHANGED lastButton
     \/ /\ btnPc = "read"
        /\ \E currentButton \in {"HIGH", "LOW"} : lastButton' = currentButton
        /\ btnPc' = "delay"
        /\ UNCHANGED btnSuspended
     \/ /\ btnPc = "delay"
        /\ btnPc' = "read"
        /\ UNCHANGED <<btnSuspended, lastButton>>
  /\ UNCHANGED <<uiPc, resetPc, rfidPc, uiSuspended, rfidSuspended,
                 lastAccess>>
  /\ UNCHANGED <<offLock, rfidVars>>

\* resetButtonTask: a debounced press (now == LOW) is accepted, the reader
\* is reset and "Locked." printed; then vTaskSuspend(ButtonTaskHandle);
\* vTaskSuspend(UITaskHandle); vTaskResume(RFIDTaskHandle), one call per
\* step.
ResetButtonTask ==
  /\ \/ /\ resetPc = "poll"
        /\ resetPc' = "suspendBtn"
        /\ lastAccess' = "press"
        /\ UNCHANGED <<uiSuspended, btnSuspended, rfidSuspended>>
     \/ /\ resetPc = "suspendBtn"
        /\ btnSuspended' = TRUE
        /\ resetPc' = "suspendUI"
        /\ UNCHANGED <<uiSuspended, rfidSuspended, lastAccess>>
     \/ /\ resetPc = "suspendUI"
        /\ uiSuspended' = TRUE
        /\ resetPc' = "resumeRFID"
        /\ UNCHANGED <<btnSuspended, rfidSuspended, lastAccess>>
     \/ /\ resetPc = "resumeRFID"
        /\ rfidSuspended' = FALSE
        /\ resetPc' = "poll"
        /\ UNCHANGED <<uiSuspended, btnSuspended, lastAccess>>
  /\ UNCHANGED <<uiPc, btnPc, rfidPc, lastButton>>
  /\ UNCHANGED <<offLock, rfidVars>>

\* RFIDTask: a card is read; if (isAuthorized()) { tone; vTaskDelay(500);
\* tone off; vTaskResume(UITaskHandle); vTaskResume(ButtonTaskHandle);
\* vTaskSuspend(NULL); } vTaskDelay(50), one call per step.
RFIDTask ==
  /\ ~rfidSuspended
  /\ \/ /\ rfidPc = "wait"
        /\ \E card \in LockCards :
             /\ uid' = card
             /\ authReturn' = <<IsAuthorized(card)>>
             /\ rfidPc' = IF IsAuthorized(card) THEN "beep" ELSE "delay"
             /\ lastAccess' = IF IsAuthorized(card) THEN "card"
                                                     ELSE lastAccess
        /\ UNCHANGED <<uiSuspended, btnSuspended, rfidSuspended>>
     \/ /\ rfidPc = "beep"
        /\ rfidPc' = "resumeUI"
        /\ UNCHANGED <<uiSuspended, btnSuspended, rfidSuspended,
                       lastAccess, rfidVars>>
     \/ /\ rfidPc = "resumeUI"
        /\ uiSuspended' = FALSE
        /\ rfidPc' = "resumeBtn"
        /\ UNCHANGED <<btnSuspended, rfidSuspended, lastAccess, rfidVars>>
     \/ /\ rfidPc = "resumeBtn"
        /\ btnSuspended' = FALSE
        /\ rfidPc' = "suspendSelf"
        /\ UNCHANGED <<uiSuspended, rfidSuspended, lastAccess, rfidVars>>
     \/ /\ rfidPc = "suspendSelf"
        /\ rfidSuspended' = TRUE
        /\ rfidPc' = "delay"
        /\ UNCHANGED <<uiSuspended, btnSuspended, lastAccess, rfidVars>>
     \/ /\ rfidPc = "delay"
        /\ rfidPc' = "wait"
        /\ UNCHANGED <<uiSuspended, btnSuspended, rfidSuspended,
                       lastAccess, rfidVars>>
  /\ UNCHANGED <<uiPc, btnPc, resetPc, lastButton>>
  /\ UNCHANGED offLock

\* ------------------------------------------------- tracker: onImuNotify
\* Longest payload explored.
MaxPayload == 2

\* Mailbox overwrites explored.
MaxOverwrites == 2

\* The bytes of a payload: '0', '1' and one other character, 'x'.
PayloadBytes == {48, 49, 120}

\* Every (pData, length) the BLE stack may hand to onImuNotify.
Payloads == UNION {[1..len -> PayloadBytes] : len \in 0..MaxPayload}

\* The BLE stack has a notification for onImuNotify, whatever the state of
\* the tracker.
NotifyArrives ==
  /\ air = <<>>
  /\ overwritten < MaxOverwrites
  /\ \E p \in Payloads : air' = <<p>>
  /\ UNCHANGED <<IMUQ, lastFlag, overwritten, movingFlag>>
  /\ UNCHANGED <<imuVars, obsVars, linkVars, buttonVars>>
  /\ UNCHANGED restVars

\* ------------------------------------------------ tracker: BLEScannerTask
\* What the steps of BLEScannerTask and of writeBtnState leave alone on the
\* tag, in the mailbox and in the access control.
offTracker == <<imuVars, obsVars, trackerVars, buttonVars, sensorVars,
                lockVars, rfidVars>>

\* Link drops explored.
MaxDrops == 1

\* if (... && (millis() - startTime > 200))
SampleEvery == 200

\* vTaskDelay(pdMS_TO_TICKS(31))
LoopDelay == 31

\* What client->getRssi() may return, dBm.
Rssis == {-62, -42}

\* BLEDevice::init("ESP32-Client"); setIMUQueue(IMUQ); and the scan setup.
ScannerInit ==
  /\ scanPc = "init"
  /\ gIMUQ' = TRUE
  /\ scanPc' = "scan"
  /\ UNCHANGED <<seen, sinceStart, sampled, RSSIQ>>
  /\ UNCHANGED <<offTracker, linkVars, connVars, writeVars, rssiVars, gravVars>>

\* while (!connected) { scan; for each device that advertises the service:
\* connected = connectToPeripheral(...) }, in the first scan and in the
\* rescan after a drop.
ScanLoop ==
  /\ scanPc \in {"scan", "rescan"}
  /\ ScannerCalls

\* The while (!connected) loop ends.  After the first scan:
\* int startTime = millis(); after a rescan the loop body goes on.
ScanLoopExit ==
  /\ scanPc \in {"scan", "rescan"}
  /\ connPc = "idle"
  /\ connected
  /\ IF scanPc = "scan"
       THEN /\ sinceStart' = 0
            /\ scanPc' = "watch"
       ELSE /\ scanPc' = "sample"
            /\ UNCHANGED sinceStart
  /\ UNCHANGED <<seen, sampled, RSSIQ>>
  /\ UNCHANGED <<offTracker, linkVars, connVars, notifyVars, writeVars,
                 rssiVars, gravVars>>

\* if (connected && client && !client->isConnected()) { connected = false;
ScannerWatch ==
  /\ scanPc = "watch"
  /\ IF connected /\ client /\ ~linkUp
       THEN /\ connected' = FALSE
            /\ seen' = seen + 1
            /\ sampled' = FALSE
            /\ scanPc' = "clearBtn"
       ELSE /\ scanPc' = "sample"
            /\ UNCHANGED <<connected, seen, sampled>>
  /\ UNCHANGED <<sinceStart, RSSIQ, linkUp, deviceConnected>>
  /\ UNCHANGED <<offTracker, connVars, notifyVars, writeVars, rssiVars, gravVars>>

\* btnRemoteChar = nullptr; imuRemoteChar = nullptr; client->disconnect();
\* one statement per step.  The link is already down.
ScannerClears ==
  /\ \/ /\ scanPc = "clearBtn"
        /\ btnRemoteChar' = "absent"
        /\ scanPc' = "clearImu"
        /\ UNCHANGED imuRemoteChar
     \/ /\ scanPc = "clearImu"
        /\ imuRemoteChar' = "absent"
        /\ scanPc' = "disconnect"
        /\ UNCHANGED btnRemoteChar
     \/ /\ scanPc = "disconnect"
        /\ scanPc' = "rescan"
        /\ UNCHANGED <<btnRemoteChar, imuRemoteChar>>
  /\ UNCHANGED <<connPc, periph, client, subscribed, connReturn>>
  /\ UNCHANGED <<seen, sinceStart, sampled, RSSIQ>>
  /\ UNCHANGED <<offTracker, linkVars, notifyVars, writeVars, rssiVars, gravVars>>

\* if (connected && client && client->isConnected() &&
\*     (millis() - startTime > 200)) { startTime = millis();
\*   int rssi = client->getRssi(); xQueueOverwrite(RSSIQ, &rssi); }
ScannerSamples ==
  /\ scanPc = "sample"
  /\ IF connected /\ client /\ linkUp /\ sinceStart > SampleEvery
       THEN /\ sinceStart' = 0
            /\ \E rssi \in Rssis : RSSIQ' = QueueOverwrite(RSSIQ, rssi)
            /\ sampled' = TRUE
       ELSE UNCHANGED <<sinceStart, RSSIQ, sampled>>
  /\ scanPc' = "delay"
  /\ UNCHANGED seen
  /\ UNCHANGED <<offTracker, linkVars, connVars, notifyVars, writeVars,
                 rssiVars, gravVars>>

\* A slip: the delay during which no time passes.
ScannerDelayNoTime ==
  /\ scanPc = "delay"
  /\ scanPc' = "watch"
  /\ UNCHANGED <<seen, sinceStart, sampled, RSSIQ>>
  /\ UNCHANGED <<offTracker, linkVars, connVars, notifyVars, writeVars,
                 rssiVars, gravVars>>

\* vTaskDelay(pdMS_TO_TICKS(31)); the elapsed time is followed up to the
\* first value above the sampling period.
ScannerDelay ==
  /\ scanPc = "delay"
  /\ sinceStart' = IF sinceStart > SampleEvery THEN sinceStart
                   ELSE sinceStart + LoopDelay
  /\ scanPc' = "watch"
  /\ UNCHANGED <<seen, sampled, RSSIQ>>
  /\ UNCHANGED <<offTracker, linkVars, connVars, notifyVars, writeVars,
                 rssiVars, gravVars>>

\* The radio link is lost while the tracker is not inside
\* connectToPeripheral.
LinkLost ==
  /\ seen < MaxDrops
  /\ connPc = "idle"
  /\ LinkDrop

\* ------------------------------------------------- tracker: writeBtnState
\* buttonTask: writeBtnState(true), the only call in the tracker.
ButtonPresses == {TRUE}

\* buttonTask calls writeBtnState(pressed).
WriteBtnCall ==
  /\ wbPc = "idle"
  /\ \E pressed \in ButtonPresses : wbPressed' = pressed
  /\ wbPc' = "check"
  /\ wbPtr' = "absent"
  /\ wbReturn' = <<>>
  /\ issued' = <<>>
  /\ UNCHANGED nullUse
  /\ UNCHANGED <<offTracker, linkVars, connVars, notifyVars, scanVars,
                 rssiVars, gravVars>>

\* A slip: the with-response write wherever the characteristic is writable
\* at all.
WriteValueWithResponse(value, length, noResp) ==
  [value |-> value, length |-> length, noResp |-> FALSE]

\* btnRemoteChar->writeValue((uint8_t*)&value, 1, noResp): the write as the
\* source names its arguments ("third param true => NO RESPONSE, false =>
\* WITH RESPONSE").
WriteValue(value, length, noResp) ==
  [value |-> value, length |-> length, noResp |-> noResp]

\* The pointer a member call of writeBtnState goes through: btnRemoteChar is
\* a plain global that BLEScannerTask assigns on the other core, so each use
\* after the test is either the value tested (kept in a register) or the
\* value in memory now.
PointersUsed == {wbPtr, btnRemoteChar}

\* A member call through a null pointer: the load from address 0 traps.
NullCall ==
  /\ nullUse' = TRUE
  /\ wbPc' = "crashed"
  /\ UNCHANGED <<wbPtr, wbReturn, issued>>

\* The body of writeBtnState, one library call per step.
WriteBtnState ==
  /\ \/ /\ wbPc = "check"
        /\ IF ~connected \/ ~client \/ btnRemoteChar = "absent"
             THEN /\ wbReturn' = <<FALSE>>
                  /\ wbPc' = "returned"
                  /\ UNCHANGED wbPtr
             ELSE /\ wbPtr' = btnRemoteChar
                  /\ wbPc' = "canNR"
                  /\ UNCHANGED wbReturn
        /\ UNCHANGED <<issued, nullUse>>
     \/ /\ wbPc = "canNR"
        /\ \E ptr \in PointersUsed :
             IF ptr = "absent"
               THEN NullCall
               ELSE /\ wbPc' = IF CanWriteNoResponse(ptr) THEN "writeNR"
                               ELSE "canW"
                    /\ UNCHANGED <<wbPtr, wbReturn, issued, nullUse>>
     \/ /\ wbPc = "writeNR"
        /\ \E ptr \in PointersUsed :
             IF ptr = "absent"
               THEN NullCall
               ELSE /\ issued' =
                         Append(issued, WriteValue(Bit(wbPressed), 1, TRUE))
                    /\ wbReturn' = <<TRUE>>
                    /\ wbPc' = "returned"
                    /\ UNCHANGED <<wbPtr, nullUse>>
     \/ /\ wbPc = "canW"
        /\ \E ptr \in PointersUsed :
             IF ptr = "absent"
               THEN NullCall
               ELSE IF CanWrite(ptr)
                 THEN /\ wbPc' = "write"
                      /\ UNCHANGED <<wbPtr, wbReturn, issued, nullUse>>
                 ELSE /\ wbReturn' = <<FALSE>>
                      /\ wbPc' = "returned"
                      /\ UNCHANGED <<wbPtr, issued, nullUse>>
     \/ /\ wbPc = "write"
        /\ \E ptr \in PointersUsed :
             IF ptr = "absent"
               THEN NullCall
               ELSE /\ issued' =
                         Append(issued, WriteValue(Bit(wbPressed), 1, FALSE))
                    /\ wbReturn' = <<TRUE>>
                    /\ wbPc' = "returned"
                    /\ UNCHANGED <<wbPtr, nullUse>>
  /\ UNCHANGED wbPressed
  /\ UNCHANGED <<offTracker, linkVars, connVars, notifyVars, scanVars,
                 rssiVars, gravVars>>

\* buttonTask drops the value returned and goes on to
\* lastButton = currentButton.
WriteBtnReturns ==
  /\ wbPc = "returned"
  /\ wbPc' = "idle"
  /\ wbPressed' = FALSE
  /\ wbPtr' = "absent"
  /\ wbReturn' = <<>>
  /\ issued' = <<>>
  /\ UNCHANGED nullUse
  /\ UNCHANGED <<offTracker, linkVars, connVars, notifyVars, scanVars,
                 rssiVars, gravVars>>

\* ---------------------------------------------- tracker: RSSI smoothing
\* Calls of updateRssiAvg explored.
MaxCalls == 5

\* Powers of two: 2^12, 2^18, 2^23, 2^24 and 2^29.
TwoTo12 == 4096
TwoTo18 == 262144
TwoTo23 == 8388608
TwoTo24 == 16777216
TwoTo29 == 536870912

\* const float alpha = 0.2f is AlphaBits * 2^-26, and (1.0f - alpha),
\* rounded to float, is AlphaBits * 2^-24.
AlphaBits == 13421773

\* num / den rounded to the nearest integer, ties to even: the rounding of
\* every float operation.
RoundHalfEven(num, den) ==
  LET q == num \div den
      r == num % den
  IN IF 2 * r < den THEN q
     ELSE IF 2 * r > den THEN q + 1
     ELSE IF q % 2 = 0 THEN q ELSE q + 1

\* alpha * rssi for a magnitude m of 20..79 dBm, in units of 2^-21: the
\* exact product m * AlphaBits * 2^-26 rounded to the 24 significant bits of
\* a float (spacing 2^-21 in [4, 8), 2^-20 in [8, 16)).
AlphaTimes(m) ==
  LET exact == m * AlphaBits
  IN IF exact >= TwoTo29
       THEN 2 * RoundHalfEven(exact, 64)
       ELSE RoundHalfEven(exact, 32)

\* AlphaBits * a as hi * 2^24 + lo with 0 <= lo < 2^24, for a < 2^24, from
\* 12-bit halves so that no intermediate value leaves 32 bits.
WideProduct(a) ==
  LET mh == AlphaBits \div TwoTo12
      ml == AlphaBits % TwoTo12
      ah == a \div TwoTo12
      al == a % TwoTo12
      mid == mh * al + ml * ah
      low == (mid % TwoTo12) * TwoTo12 + ml * al
  IN [hi |-> mh * ah + (mid \div TwoTo12) + (low \div TwoTo24),
      lo |-> low % TwoTo24]

\* (1.0f - alpha) * rssiAvg for a magnitude a * 2^-18 in [32, 64), in units
\* of 2^-21: the exact product AlphaBits * a * 2^-42 rounded to a float
\* (spacing 2^-19 in [16, 32), 2^-18 in [32, 64)).
OneMinusAlphaTimes(a) ==
  LET w == WideProduct(a)
  IN IF w.hi >= TwoTo23
       THEN 8 * (w.hi + RoundHalfEven(w.lo + (w.hi % 2) * TwoTo24, TwoTo24)
                 - (w.hi % 2))
       ELSE 4 * (2 * w.hi + RoundHalfEven(w.lo, TwoTo23))

\* alpha * rssi + (1.0f - alpha) * rssiAvg for a sample and an average of
\* the same sign, as magnitudes: each product is rounded to float, then
\* the sum (in [32, 64), spacing 2^-18).
Smoothed(m, a) ==
  RoundHalfEven(AlphaTimes(m) + OneMinusAlphaTimes(a), 8)

\* updateRssiAvg(rssi) for a negative rssi.
UpdateRssiAvg(rssi) ==
  /\ IF ~hasAvg
       THEN rssiAvg' = rssi * TwoTo18
       ELSE rssiAvg' = 0 - Smoothed(0 - rssi, 0 - rssiAvg)
  /\ hasAvg' = TRUE

\* BLEScannerTask: int rssi = client->getRssi();
\* xQueueOverwrite(RSSIQ, &rssi), seen from distanceTask.
GetRssi ==
  /\ calls + Len(RSSIQ) < MaxCalls
  /\ \E rssi \in Rssis : RSSIQ' = QueueOverwrite(RSSIQ, rssi)
  /\ UNCHANGED <<scanPc, seen, sinceStart, sampled>>
  /\ UNCHANGED <<offTracker, linkVars, connVars, notifyVars, writeVars,
                 rssiVars, gravVars>>

\* distanceTask: xQueueReceive(RSSIQ, &rssi, portMAX_DELAY) == pdTRUE, then
\* updateRssiAvg(rssi) and the distance estimate.
DistanceTask ==
  /\ RSSIQ # <<>>
  /\ LET rssi == Head(RSSIQ)
     IN /\ UpdateRssiAvg(rssi)
        /\ minSeen' = IF calls = 0 \/ rssi < minSeen THEN rssi ELSE minSeen
        /\ maxSeen' = IF calls = 0 \/ rssi > maxSeen THEN rssi ELSE maxSeen
  /\ calls' = calls + 1
  /\ RSSIQ' = Tail(RSSIQ)
  /\ UNCHANGED <<scanPc, seen, sinceStart, sampled>>
  /\ UNCHANGED <<offTracker, linkVars, connVars, notifyVars, writeVars,
                 gravVars>>

\* --------------------------------------------- tag: gravity compensation
\* Sines and cosines are kept in fifths.
TrigUnit == 5

\* roll and pitch explored, degrees: 0, the angles of the 3-4-5 triangle
\* (to the nearest degree) and their negatives.
Angles == {0, 37, 53, -37, -53}

\* sin(angle * PI / 180.0), in fifths.  At 0 the float result is exactly
\* 0; at the other angles the table holds the real value that the float
\* result approximates.
Sin(a) ==
  CASE a = 0 -> 0
    [] a = 37 -> 3
    [] a = 53 -> 4
    [] a = -37 -> -3
    [] a = -53 -> -4

\* cos(angle * PI / 180.0), in fifths; exactly 1 at 0.
Cos(a) ==
  CASE a = 0 -> 5
    [] a \in {37, -37} -> 4
    [] a \in {53, -53} -> 3

\* Raw accelerations explored, g.
Accels == {<<0, 0, 1>>, <<0, 0, 0>>, <<1, 0, 0>>, <<0, -1, 0>>, <<0, 0, 2>>}

\* A slip: gZ = sin(roll_rad) * cos(pitch_rad).
GravityZFromSine(r, p) ==
  <<(0 - Sin(p)) * TrigUnit, Sin(r) * Cos(p), Sin(r) * Cos(p)>>

\* gX = -sin(pitch_rad); gY = sin(roll_rad) * cos(pitch_rad);
\* gZ = cos(roll_rad) * cos(pitch_rad), in 1/25 g.
Gravity(r, p) ==
  <<(0 - Sin(p)) * TrigUnit, Sin(r) * Cos(p), Cos(r) * Cos(p)>>

\* linAccX = imu_data->AccX - gX, and the same for Y and Z, in 1/25 g.
LinAcc(acc, g) ==
  [k \in 1..3 |-> TrigUnit * TrigUnit * acc[k] - g[k]]

Abs(x) == IF x < 0 THEN 0 - x ELSE x

\* sqrt(linAccX*linAccX + linAccY*linAccY + linAccZ*linAccZ), rounded down
\* to a whole number of 1/25 g; it is 0 exactly when the three components
\* are 0.
LinMag(l) ==
  LET sq == l[1] * l[1] + l[2] * l[2] + l[3] * l[3]
  IN CHOOSE m \in 0..(Abs(l[1]) + Abs(l[2]) + Abs(l[3])) :
       m * m <= sq /\ sq < (m + 1) * (m + 1)

\* One pass of the gravity compensation of IMUTask for an orientation and a
\* raw acceleration.
GravityStep ==
  /\ \E r \in Angles, p \in Angles, acc \in Accels :
       /\ gravIn' = <<r, p, acc>>
       /\ gravity' = Gravity(r, p)
       /\ linMag' = LinMag(LinAcc(acc, Gravity(r, p)))
  /\ UNCHANGED <<imuVars, obsVars, linkVars, trackerVars, buttonVars>>
  /\ UNCHANGED <<sensorVars, lockVars, rfidVars, connVars, notifyVars,
                 scanVars, writeVars, rssiVars>>

\* ------------------------------------------------------------ specification
Init ==
  /\ imuPc = "calGyro"
  /\ \E g \in Garbage :
       /\ errGy = <<g, g, g>>
       /\ errAc = <<g, g, g>>
       /\ elapsedTime = g
       /\ roll = g
       /\ pitch = g
  /\ buffer = [k \in 0..(Capacity - 1) |-> 0]
  /\ sum = 0
  /\ avg = 0
  /\ i = 0
  /\ movement = FALSE
  /\ moveSignal = 0
  /\ sent = <<>>
  /\ n = 0
  /\ cur = NoSample
  /\ runLen = 0
  /\ priorAllZero = TRUE
  /\ movingAtRunStart = FALSE
  /\ stopsAtRunStart = 0
  /\ moveEvents = 0
  /\ stopEvents = 0
  /\ linkUp = FALSE
  /\ deviceConnected = FALSE
  /\ connected = FALSE
  /\ air = <<>>
  /\ IMUQ = <<>>
  /\ lastFlag = NoFlag
  /\ overwritten = 0
  /\ movingFlag = NoFlag
  /\ bleMessageReceived = FALSE
  /\ relayPc = "check"
  /\ semaphore = 0
  /\ buzzerOn = FALSE
  /\ writes = 0
  /\ wireOk = TRUE
  /\ uiPc = "start"
  /\ btnPc = "start"
  /\ resetPc = "poll"
  /\ rfidPc = "wait"
  /\ uiSuspended = FALSE
  /\ btnSuspended = FALSE
  /\ rfidSuspended = FALSE
  /\ lastButton = "HIGH"
  /\ lastAccess = "none"
  /\ uid = <<>>
  /\ authReturn = <<>>
  /\ connPc = "idle"
  /\ periph = NoPeripheral
  /\ client = FALSE
  /\ btnRemoteChar = "absent"
  /\ imuRemoteChar = "absent"
  /\ subscribed = FALSE
  /\ connReturn = <<>>
  /\ gIMUQ = FALSE
  /\ scanPc = "init"
  /\ seen = 0
  /\ sinceStart = 0
  /\ sampled = FALSE
  /\ RSSIQ = <<>>
  /\ hasAvg = FALSE
  /\ rssiAvg = 0
  /\ calls = 0
  /\ minSeen = 0
  /\ maxSeen = 0
  /\ gravIn = <<0, 0, <<0, 0, 0>>>>
  /\ gravity = <<0, 0, 0>>
  /\ linMag = -1
  /\ wbPc = "idle"
  /\ wbPressed = FALSE
  /\ wbPtr = "absent"
  /\ wbReturn = <<>>
  /\ issued = <<>>
  /\ nullUse = FALSE

Next ==
  \/ CalibrateGyro
  \/ CalibrateAccel
  \/ IMULoop
  \/ Connect
  \/ LinkDrop
  \/ ScannerSeesDrop
  \/ OnImuNotify
  \/ UIRead

Spec == Init /\ [][Next]_vars

\* The tag alone with all of its tasks and callbacks: IMUTask, the server
\* callbacks, the button write callback, ButtonRelayTask and BuzzerSetTask.
IMULoopTag ==
  \E s \in NextSamples, past \in BOOLEAN :
    \E dt \in (IF n = 0 THEN FirstDeltas ELSE LoopDeltas) :
      IMUIteration(s, dt, past, TagIter)

\* IMUTask alone, once around the motion buffer and past the wrap.
IMULoopRing ==
  \E s \in NextSamples, past \in BOOLEAN :
    \E dt \in (IF n = 0 THEN FirstDeltas ELSE LoopDeltas) :
      IMUIteration(s, dt, past, RingIter)

NextRing ==
  \/ CalibrateGyro
  \/ CalibrateAccel
  \/ IMULoopRing

SpecRing == Init /\ [][NextRing]_vars

NextTag ==
  \/ CalibrateGyro
  \/ CalibrateAccel
  \/ IMULoopTag
  \/ Connect
  \/ LinkDrop
  \/ ScannerSeesDrop
  \/ OnWrite
  \/ ButtonRelayTask
  \/ BuzzerSetTask

SpecTag == Init /\ [][NextTag]_vars

\* The tracker's access control: UITask, buttonTask, resetButtonTask and
\* RFIDTask in every interleaving, with the tag connected at some point.
NextLock ==
  \/ UITask
  \/ ButtonTask
  \/ ResetButtonTask
  \/ RFIDTask
  \/ Connect

SpecLock == Init /\ [][NextLock]_vars

\* The tracker looking for the tag: every call of connectToPeripheral, for
\* every peripheral that advertises the service.
NextConn ==
  \/ ScannerCalls
  \/ ConnectToPeripheral
  \/ ScannerAssigns

SpecConn == Init /\ [][NextConn]_vars

\* BLEScannerTask, statement by statement.
ScannerSteps ==
  \/ ScannerInit
  \/ ScanLoop
  \/ ConnectToPeripheral
  \/ ScannerAssigns
  \/ ScanLoopExit
  \/ ScannerWatch
  \/ ScannerClears
  \/ ScannerSamples
  \/ ScannerDelay

\* BLEScannerTask stands still during a call of writeBtnState.
BetweenWrites ==
  /\ wbPc = "idle"
  /\ (ScannerSteps \/ LinkLost)

\* writeBtnState as a sequential function: called in every state the
\* scanner can leave the tracker in, with no step of the scanner inside a
\* call.
NextWrite ==
  \/ WriteBtnCall
  \/ WriteBtnState
  \/ WriteBtnReturns
  \/ BetweenWrites

SpecWrite == Init /\ [][NextWrite]_vars

\* buttonTask (core 1) calls writeBtnState while BLEScannerTask (core 0)
\* runs.
NextBtn ==
  \/ WriteBtnCall
  \/ WriteBtnState
  \/ WriteBtnReturns
  \/ ScannerSteps
  \/ LinkLost

SpecBtn == Init /\ [][NextBtn]_vars

\* BLEScannerTask and the radio link.
NextScan ==
  \/ ScannerSteps
  \/ LinkLost

SpecScan == Init /\ [][NextScan]_vars

\* The statements of BLEScannerTask that need nothing from the radio: the
\* task has priority 5 on core 0, above the only other task of that core
\* (distanceTask, priority 1), so a statement that can run does run.  Whether a scan finds a
\* device (ScanLoop) is left to the environment.
ScannerRuns ==
  \/ ScannerInit
  \/ ConnectToPeripheral
  \/ ScannerAssigns
  \/ ScanLoopExit
  \/ ScannerWatch
  \/ ScannerClears
  \/ ScannerSamples
  \/ ScannerDelay

SpecScanFair == SpecScan /\ WF_vars(ScannerRuns)

\* onImuNotify as a function of the payload and of the queue handle:
\* called before and after setIMUQueue, with the UI task reading the
\* mailbox.
NextNotify ==
  \/ ScannerInit
  \/ NotifyArrives
  \/ OnImuNotify
  \/ UIRead

SpecNotify == Init /\ [][NextNotify]_vars

\* The RSSI samples of the scanner and distanceTask smoothing them.
NextRssi ==
  \/ GetRssi
  \/ DistanceTask

SpecRssi == Init /\ [][NextRssi]_vars

\* The gravity compensation as a function of orientation and raw
\* acceleration.
NextGravity == GravityStep

SpecGravity == Init /\ [][NextGravity]_vars

\* rfid.PICC_ReadCardSerial() fills rfid.uid with the UID of the card.
ReadCardSerial ==
  /\ uid = <<>>
  /\ authReturn = <<>>
  /\ uid' \in Uids
  /\ UNCHANGED authReturn
  /\ UNCHANGED <<offLock, lockVars>>

\* if (isAuthorized()) on the UID read.
IsAuthorizedCall ==
  /\ authReturn = <<>>
  /\ authReturn' = <<IsAuthorized(uid)>>
  /\ UNCHANGED uid
  /\ UNCHANGED <<offLock, lockVars>>

\* One card read and checked.
NextAuth ==
  \/ ReadCardSerial
  \/ IsAuthorizedCall

SpecAuth == Init /\ [][NextAuth]_vars

\* The sensor stops answering on the I2C bus while IMUTask is calibrating
\* (Wire.requestFrom receives nothing from then on).
BusFails ==
  /\ imuPc \in {"calGyro", "calAccel"}
  /\ wireOk
  /\ wireOk' = FALSE
  /\ UNCHANGED <<imuVars, obsVars, linkVars, trackerVars, buttonVars>>
  /\ UNCHANGED <<lockVars, rfidVars, connVars, moreVars>>

IMULoopFault ==
  \E s \in NextSamples, past \in BOOLEAN :
    \E dt \in (IF n = 0 THEN FirstDeltas ELSE LoopDeltas) :
      IMUIteration(s, dt, past, FaultIter)

\* IMUTask with a sensor that may stop answering during calibration.
NextFault ==
  \/ BusFails
  \/ CalibrateGyro
  \/ CalibrateAccel
  \/ IMULoopFault

SpecFault == Init /\ [][NextFault]_vars

\* ------------------------------------------------------------------- claims
AboveExit(a) == ExitDen * a > Scale * Capacity
BelowEnter(a) == EnterDen * a < Scale * Capacity
IterationStep == n' # n

\* C1: after every insertion the running sum equals the sum of the 32
\* buffer slots (the 32 most recent magnitudes).  The code violates it.
C1_RunningSumExact == sum = SumSlots(buffer, Capacity)

\* C2: once Moving, the classifier stays Moving through every iteration
\* whose average is strictly above the exit threshold 0.05, and an average
\* strictly between 0.05 and 0.5 changes the movement state in neither
\* direction.
C2_Hysteresis ==
  [][IterationStep =>
       /\ (movement /\ AboveExit(avg') => movement')
       /\ (AboveExit(avg') /\ BelowEnter(avg') => movement' = movement)]_vars

\* A Moving classifier whose average lies inside the band.
C2_Witness == movement /\ AboveExit(avg) /\ BelowEnter(avg) /\ runLen > 1

\* C3: an iteration calls notify() exactly when movement changes value, once,
\* with a one-byte payload the tracker reads back as the new value; an
\* iteration that leaves movement unchanged sends nothing.
C3_NotifyExactlyOnTransition ==
  [][IterationStep =>
       IF movement' # movement
         THEN /\ Len(sent') = 1
              /\ Len(sent'[1]) = 1
              /\ ParseFlag(sent'[1]) = Bit(movement')
         ELSE sent' = <<>>]_vars

\* The iteration that left Moving has sent its one notification.
C3_Witness == sent # <<>> /\ ~movement /\ stopEvents = 1 /\ moveEvents = 1

\* C4: the classifier starts NotMoving; an iteration switches to Moving if
\* and only if it began NotMoving and its average is >= 0.5; no iteration
\* both enters and leaves Moving.
C4_EnterExactlyAtThreshold ==
  /\ ~movement
  /\ [][IterationStep =>
          /\ (~movement /\ movement') <=> (~movement /\ ~BelowEnter(avg'))
          /\ ~(moveEvents' # moveEvents /\ stopEvents' # stopEvents)]_vars

\* The switch to Moving at an average of exactly 0.5.
C4_Witness ==
  movement /\ sent # <<>> /\ EnterDen * avg = Scale * Capacity

\* C5: from a Moving classifier, 32 or more consecutive zero magnitudes
\* bring the average to 0 and produce exactly one NotMoving event.  The
\* code violates it.
C5_ZeroRunStopsOnce ==
  (cur = Rest /\ movingAtRunStart /\ runLen >= Capacity) =>
    /\ avg = 0
    /\ ~movement
    /\ stopEvents - stopsAtRunStart = 1

\* C6: from the initial state, any number of zeros followed by up to 20
\* magnitudes of 1.0: Moving is entered exactly at the 16th 1.0 sample and
\* exactly one Moving event (and no NotMoving event) is emitted.
C6_ScenarioA ==
  /\ (priorAllZero /\ cur = Rest) => (~movement /\ moveEvents = 0)
  /\ (priorAllZero /\ cur = Walk /\ runLen <= 20) =>
       /\ movement <=> runLen >= 16
       /\ moveEvents = Bit(runLen >= 16)
       /\ stopEvents = 0
       /\ (runLen = 16 => sent = <<Sprintf(1)>>)
       /\ (runLen # 16 => sent = <<>>)

\* Leading zeros, then the 20th sample of 1.0.
C6_Witness ==
  priorAllZero /\ cur = Walk /\ runLen = 20 /\ n > 32 /\ moveEvents = 1

\* C7: the mailbox never holds more than one item and what it holds is the
\* most recently written flag; a notification waiting to be handled can
\* always be handled (the write does not block on a full mailbox); a read
\* by UITask returns the most recently written flag and empties the mailbox.
C7_MailboxLatestWins ==
  /\ [](/\ Len(IMUQ) <= 1
        /\ (IMUQ # <<>> => IMUQ = <<lastFlag>>)
        /\ (air # <<>> => ENABLED OnImuNotify))
  /\ [][movingFlag' # movingFlag \/ Len(IMUQ') < Len(IMUQ) =>
          /\ movingFlag' = lastFlag
          /\ IMUQ' = <<>>]_vars

\* An unread flag was replaced, and the read returned the later one.
C7_Witness ==
  overwritten >= 1 /\ IMUQ = <<>> /\ movingFlag = lastFlag /\ movingFlag = 0

\* C8: whenever the tracker is connected and nothing is in flight, the last
\* flag delivered to the mailbox is the tag's current movement state (with
\* nothing delivered yet counting as not moving).  The code violates it.
C8_TrackerInSync ==
  (connected /\ linkUp /\ air = <<>>) =>
    (IF lastFlag = NoFlag THEN 0 ELSE lastFlag) = Bit(movement)

\* C9: the calibration offsets, roll and pitch, the motion buffer, its sum
\* and write index and the movement flag change only in steps of IMUTask.
C9_OnlyIMUTaskWrites ==
  [][(n' = n /\ imuPc' = imuPc) =>
       UNCHANGED <<errGy, errAc, roll, pitch, buffer, sum, i, movement>>]_vars

\* The other tasks and callbacks have run while the classifier was Moving.
C9_Witness == movement /\ buzzerOn /\ ~deviceConnected /\ writes > 0

\* C10: once both calibrations have returned, no step writes any of the six
\* offsets.
C10_OffsetsImmutable ==
  [][imuPc = "loop" => UNCHANGED <<errGy, errAc>>]_vars

\* The loop has run on offsets that calibration set.
C10_Witness ==
  imuPc = "loop" /\ n > 1 /\ errGy = <<2, -1, 0>> /\ errAc = <<0, 0, 1>>

\* C11: no iteration of the classification loop runs and no movement event
\* is emitted before calibrateGyro and then calibrateAccel have both
\* returned: the task starts in calibrateGyro, reaches calibrateAccel only
\* from it and the loop only from calibrateAccel.
C11_CalibrationFirst ==
  /\ imuPc = "calGyro"
  /\ [](imuPc # "loop" =>
          n = 0 /\ moveEvents = 0 /\ stopEvents = 0 /\ sent = <<>>)
  /\ [][/\ (IterationStep => imuPc = "loop")
        /\ (imuPc' # imuPc =>
              \/ imuPc = "calGyro" /\ imuPc' = "calAccel"
              \/ imuPc = "calAccel" /\ imuPc' = "loop")]_vars

\* A movement event emitted by the loop, after both calibrations.
C11_Witness == imuPc = "loop" /\ n >= 8 /\ moveEvents = 1 /\ movement

\* C12: with every raw read returning the constant v on an axis, the offset
\* a calibration returns for that axis is v, whatever the output variable
\* held before the call.  The code violates it.
C12_CalibrationIsMean ==
  /\ (imuPc # "calGyro" => errGy \in GyroAtRest)
  /\ (imuPc = "loop" => errAc \in AccelAtRest)

\* C13: if the sensor cannot be read during calibration, IMUTask does not
\* enter the fusion loop and emits no movement event.  The code violates it.
C13_NoLoopWithoutSensor ==
  ~wireOk => (imuPc # "loop" /\ n = 0 /\ moveEvents = 0 /\ stopEvents = 0)

\* C14: the elapsed time fed to the complementary filter is strictly
\* positive in every iteration, the first one after calibration included.
\* The code violates it.
C14_DtPositive == n > 0 => elapsedTime > 0

\* 0.98*(prev + rate*dt) + 0.02*acc with prev in 1/50000 degree, times 50.
FilterFromPrevious(prev, rate, dt, acc) ==
  49 * prev + 50 * 49 * rate * dt + 50 * 1000 * acc

\* C15: the roll and pitch the filter uses as previous values in an
\* iteration are the roll and pitch it produced in the iteration before:
\* roll' = 0.98*(roll + GyroX*dt) + 0.02*accAngleX, pitch alike.  The code
\* violates it.
C15_OneStepRecurrence ==
  [][IterationStep /\ n >= 1 =>
       /\ 50 * roll' = FilterFromPrevious(roll, cur'.gyX - errGy[1],
                                          elapsedTime', cur'.angX - errAc[1])
       /\ 50 * pitch' = FilterFromPrevious(pitch, cur'.gyY - errGy[2],
                                           elapsedTime', cur'.angY + errAc[2])
    ]_vars

\* The press handler is not in the middle of its three calls.
ResetIdle == resetPc = "poll"
\* UITask prints a distance or motion status on the LCD.
UIShows == uiPc = "select" /\ uiPc' = "delay"
\* buttonTask sees a press and writeBtnState(true) sends it over the link.
ButtonWrites ==
  /\ btnPc = "read" /\ btnPc' = "delay"
  /\ lastButton = "HIGH" /\ lastButton' = "LOW"
  /\ connected

\* C16: once RFIDTask has processed an authorised card (up to and including
\* its vTaskSuspend(NULL)) with no reset press after the card, and UITask and
\* buttonTask are past their initial self-suspend, UITask and buttonTask
\* are not suspended and RFIDTask is.  The code violates it.
C16_UnlockCompletes ==
  (/\ lastAccess = "card" /\ rfidPc = "delay" /\ ResetIdle
   /\ uiPc # "start" /\ btnPc # "start") =>
    (~uiSuspended /\ ~btnSuspended /\ rfidSuspended)

\* C17: while the tracker is locked (no authorised card read since the
\* start or since the last reset press, the press handler having returned)
\* no step of UITask prints a status and no step of buttonTask sends a
\* button write; a step that reads an unauthorised card resumes and
\* suspends nothing.  The code violates it.
C17_LockedIsSilent ==
  [][/\ (lastAccess # "card" /\ ResetIdle) => (~UIShows /\ ~ButtonWrites)
     /\ (rfidPc = "wait" /\ rfidPc' = "delay") =>
          UNCHANGED <<uiSuspended, btnSuspended, rfidSuspended, lastAccess>>
    ]_vars

\* C18: after an accepted reset press whose handler has returned, and until
\* an authorised card is read after that press, UITask and buttonTask are
\* suspended and RFIDTask is not.  The code violates it.
C18_ResetLocks ==
  (lastAccess = "press" /\ ResetIdle) =>
    (uiSuspended /\ btnSuspended /\ ~rfidSuspended)

\* C19: isAuthorized returns true if and only if the UID read has 7 bytes
\* and each equals the corresponding byte of AUTH_UID.
C19_AuthorizedIffEqual ==
  authReturn # <<>> =>
    (authReturn[1] <=>
       (Len(uid) = 7 /\ \A k \in 1..7 : uid[k] = AUTH_UID[k]))

\* A 7-byte UID that differs from AUTH_UID in its last byte only is refused.
C19_Witness ==
  /\ authReturn = <<FALSE>>
  /\ Len(uid) = 7
  /\ \A k \in 1..6 : uid[k] = AUTH_UID[k]
  /\ uid[7] # AUTH_UID[7]

\* Everything connectToPeripheral requires of the peripheral.
AllFound(p) ==
  /\ p.reachable /\ p.service
  /\ p.btn \in {"write", "writeNR", "both"}
  /\ p.imu = "notify"

\* C20: connectToPeripheral returns true exactly when the connect succeeded,
\* the service was found, the button characteristic was found and is
\* writable and the IMU characteristic was found and notifies; then
\* connected is true and the notifications are subscribed.  On every other
\* path it returns false with connected not set, nothing subscribed and the
\* link down; connected is set nowhere else in the function.
C20_ConnectAllOrNothing ==
  /\ [](connPc = "returned" =>
          /\ connReturn[1] <=> AllFound(periph)
          /\ connReturn[1] => (connected /\ subscribed /\ linkUp)
          /\ ~connReturn[1] => (~connected /\ ~subscribed /\ ~linkUp))
  /\ [][(connPc \notin {"idle", "returned"} /\ connected' # connected) =>
          (connected' /\ subscribed' /\ connReturn' = <<TRUE>>
           /\ AllFound(periph))]_vars

\* The call failed at the last validation, after the link was established.
C20_Witness ==
  /\ connPc = "returned" /\ connReturn = <<FALSE>>
  /\ periph.reachable /\ periph.service
  /\ btnRemoteChar = "writeNR" /\ imuRemoteChar = "plain"
  /\ ~deviceConnected

C29_NoNullUse == ~nullUse

\* The step of onImuNotify for the payload at the head of air.
NotifyStep == air # <<>> /\ air' = Tail(air)

\* Position k holds the first '0' or '1' of payload p.
FirstFlagAt(p, k) ==
  /\ k \in 1..Len(p)
  /\ p[k] \in {48, 49}
  /\ \A j \in 1..(k - 1) : p[j] \notin {48, 49}

\* C22: onImuNotify writes to the mailbox the value of the first '0' or '1'
\* byte of the payload; a payload of length zero, a payload without either
\* byte and an unset queue handle leave the mailbox as it was.
C22_FirstFlagToMailbox ==
  [][NotifyStep =>
       LET p == Head(air)
       IN IF gIMUQ /\ \E k \in 1..Len(p) : FirstFlagAt(p, k)
            THEN \E k \in 1..Len(p) :
                   /\ FirstFlagAt(p, k)
                   /\ IMUQ' = <<p[k] - 48>>
            ELSE IMUQ' = IMUQ]_vars

\* With the handle set, onImuNotify replaced an unread flag in the mailbox
\* by a 1 and the UI task has not read it yet.
C22_Witness ==
  /\ gIMUQ
  /\ air = <<>>
  /\ IMUQ = <<1>> /\ lastFlag = 1
  /\ overwritten > 0

\* In the rescan after a drop, connectToPeripheral has just succeeded.
Reconnected ==
  /\ scanPc = "rescan"
  /\ connPc = "returned"
  /\ connReturn = <<TRUE>>

\* C23: after BLEScannerTask has observed a drop it stays in the rescan
\* loop, ready to call connectToPeripheral for a device that advertises the
\* service, until connected is true; once such a call succeeds, connected
\* is true again and an RSSI sample follows, unless the link is lost again
\* first.
C23_AutoReconnect ==
  /\ [][(scanPc = "rescan" /\ scanPc' # "rescan") => connected']_vars
  /\ []((scanPc = "rescan" /\ connPc = "idle" /\ ~connected) =>
          ENABLED ScanLoop)
  /\ [](Reconnected => connected)
  /\ (Reconnected ~> ((connected /\ linkUp /\ sampled) \/ ~linkUp))

\* After an observed drop the tracker is connected again and has sampled
\* the RSSI of the new link.
C23_Witness ==
  /\ seen > 0
  /\ connected /\ linkUp
  /\ sampled /\ RSSIQ # <<>>

\* C24: once updateRssiAvg has been called, hasAvg is true and stays true,
\* the first call leaves the sample in rssiAvg, and after any number of
\* calls rssiAvg lies between the smallest and the largest sample passed
\* so far.
C24_AverageInRange ==
  /\ (calls > 0) <=> hasAvg
  /\ calls = 1 => rssiAvg = minSeen * TwoTo18
  /\ hasAvg =>
       /\ minSeen * TwoTo18 <= rssiAvg
       /\ rssiAvg <= maxSeen * TwoTo18

\* Nothing is left for ButtonRelayTask or BuzzerSetTask to do.
BuzzerQuiet ==
  /\ ~bleMessageReceived
  /\ relayPc = "check"
  /\ semaphore = 0

\* C25: every write to the button characteristic toggles the buzzer once:
\* when the tasks have quiesced after n writes, the buzzer is on exactly
\* when n is odd.
C25_OneTogglePerWrite ==
  BuzzerQuiet => (buzzerOn <=> (writes % 2 = 1))

\* C26: the write index stays in 0..31 and advances by one modulo 32 in
\* every iteration: the k-th insertion writes slot (k-1) mod 32 and changes
\* no other slot.
C26_RoundRobin ==
  /\ [](i \in 0..(Capacity - 1))
  /\ [][IterationStep =>
          /\ i = n % Capacity
          /\ i' = (i + 1) % Capacity
          /\ buffer'[i] = cur'.mag
          /\ \A k \in 0..(Capacity - 1) :
                k # i => buffer'[k] = buffer[k]]_vars

\* The 33rd insertion has overwritten slot 0, the first slot written, with
\* a non-zero magnitude and the index points at slot 1.
C26_Witness ==
  /\ n = Capacity + 1
  /\ i = 1
  /\ buffer[0] # 0 /\ buffer[0] = cur.mag

\* C28: every slot of the motion buffer that the moving-average step reads
\* or writes has an index in 0..31, whatever the write index, the look at
\* the neighbouring slot included.
C28_SlotsInRange ==
  [][IterationStep => SlotsUsed(i) \subseteq 0..(Capacity - 1)]_vars

\* C27: for roll = pitch = 0 the reconstructed gravity vector is (0, 0, 1),
\* and a raw acceleration of (0, 0, 1) then gives a linear-acceleration
\* magnitude of exactly 0.
C27_FlatIsGravityFree ==
  (linMag >= 0 /\ gravIn[1] = 0 /\ gravIn[2] = 0) =>
    /\ gravity = <<0, 0, TrigUnit * TrigUnit>>
    /\ gravIn[3] = <<0, 0, 1>> => linMag = 0

\* The compensation ran for the flat device at rest.
C27_Witness ==
  /\ gravIn = <<0, 0, <<0, 0, 1>>>>
  /\ linMag = 0

====
